---------------------------- MODULE Spec2Model ----------------------------
(***************************************************************************)
(* A model of the OSC message library: the Argument variants (Int, Float,  *)
(* Bool, String, Blob) with their typed accessors and equality, the        *)
(* Message codec (Typetags, Bytes, ParseMessage, ParseArgument) and the    *)
(* address matcher (Match, VerifyParts, GetRegex).                         *)
(*                                                                         *)
(* A Go string and a Go []byte are both modelled as a sequence of bytes    *)
(* (integers 0..255).  An int32 is an integer in -2^31 .. 2^31-1, and a    *)
(* float32 is identified with its 32-bit IEEE-754 pattern, read as an      *)
(* int32 (the sign bit of the float is the sign of the integer).           *)
(***************************************************************************)
EXTENDS Integers, Sequences, FiniteSets, TLC

VARIABLES msg, op, inp, ret, argA, argB, probe

vars == <<msg, op, inp, ret, argA, argB, probe>>

(***************************************************************************)
(* Bounds of the model.                                                    *)
(***************************************************************************)
MaxArgs == 4
MaxPatLen == 3
MaxAddrLen == 3

(***************************************************************************)
(* Bytes that the program names.                                           *)
(***************************************************************************)
NUL == 0
TypetagInt == 105
TypetagFloat == 102
TypetagTrue == 84
TypetagFalse == 70
TypetagString == 115
TypetagBlob == 98
MessageChar == 47
ChDot == 46
ChLParen == 40
ChRParen == 41
ChStar == 42
ChLBrace == 123
ChComma == 44
ChRBrace == 125
ChQuestion == 63
ChBar == 124
ChBackslash == 92
ChCaret == 94
ChDollar == 36
\* Letters used in addresses.  Neither is the letter of a regular-expression
\* escape: the regexp parser rejects a backslash followed by either.
ChG == 103
ChY == 121

Pow2(n) == 2 ^ n

(***************************************************************************)
(* Errors.                                                                 *)
(***************************************************************************)
Nil == "nil"
ErrInvalidTypeTag == "invalid type tag"
ErrUnexpectedEOF == "unexpected EOF"
ErrRegexSyntax == "error parsing regexp"

(***************************************************************************)
(* Arguments.  One record shape for the five variants; the fields a        *)
(* variant does not use hold a fixed default.                              *)
(***************************************************************************)
IntArg(v) == [kind |-> "Int", i |-> v, f |-> 0, b |-> FALSE, s |-> <<>>]
FloatArg(bits) == [kind |-> "Float", i |-> 0, f |-> bits, b |-> FALSE, s |-> <<>>]
BoolArg(v) == [kind |-> "Bool", i |-> 0, f |-> 0, b |-> v, s |-> <<>>]
StringArg(str) == [kind |-> "String", i |-> 0, f |-> 0, b |-> FALSE, s |-> str]
BlobArg(bytes) == [kind |-> "Blob", i |-> 0, f |-> 0, b |-> FALSE, s |-> bytes]

\* The dynamic type behind an Argument interface value.
DynamicType(a) == a.kind

\* a.Typetag()
Typetag(a) ==
  CASE a.kind = "Int" -> TypetagInt
    [] a.kind = "Float" -> TypetagFloat
    [] a.kind = "Bool" -> IF a.b THEN TypetagTrue ELSE TypetagFalse
    [] a.kind = "String" -> TypetagString
    [] a.kind = "Blob" -> TypetagBlob

\* float32 == float32 on bit patterns: a NaN equals nothing, +0 equals -0.
MinInt32 == -2147483647 - 1
FloatMagnitude(bits) == IF bits < 0 THEN bits - MinInt32 ELSE bits
FloatIsNaN(bits) == FloatMagnitude(bits) > 2139095040
FloatIsZero(bits) == FloatMagnitude(bits) = 0
Float32Eq(x, y) ==
  /\ ~FloatIsNaN(x)
  /\ ~FloatIsNaN(y)
  /\ (x = y \/ (FloatIsZero(x) /\ FloatIsZero(y)))

\* The result of a call of Equal: it panics when a type assertion fails.
EqualResult(v) == [panic |-> FALSE, eq |-> v]
EqualPanic == [panic |-> TRUE, eq |-> FALSE]

\* other.(T): the type assertion, which panics on another dynamic type.
IntEqual(a, other) ==
  IF Typetag(other) # TypetagInt THEN EqualResult(FALSE)
  ELSE IF DynamicType(other) # "Int" THEN EqualPanic
  ELSE EqualResult(a.i = other.i)

FloatEqual(a, other) ==
  IF Typetag(other) # TypetagFloat THEN EqualResult(FALSE)
  ELSE IF DynamicType(other) # "Float" THEN EqualPanic
  ELSE EqualResult(Float32Eq(a.f, other.f))

\* A slip: only the tag of true is let through, so false equals nothing.
BoolEqualOnlyTrueTag(a, other) ==
  IF Typetag(other) # TypetagTrue THEN EqualResult(FALSE)
  ELSE IF DynamicType(other) # "Bool" THEN EqualPanic
  ELSE EqualResult(a.b = other.b)

BoolEqual(a, other) ==
  IF Typetag(other) # TypetagFalse /\ Typetag(other) # TypetagTrue
  THEN EqualResult(FALSE)
  ELSE IF DynamicType(other) # "Bool" THEN EqualPanic
  ELSE EqualResult(a.b = other.b)

StringEqual(a, other) ==
  IF Typetag(other) # TypetagString THEN EqualResult(FALSE)
  ELSE IF DynamicType(other) # "String" THEN EqualPanic
  ELSE EqualResult(a.s = other.s)

\* bytes.Equal(b, b2)
BytesEqual(x, y) ==
  /\ Len(x) = Len(y)
  /\ \A k \in 1..Len(x) : x[k] = y[k]

BlobEqual(a, other) ==
  IF Typetag(other) # TypetagBlob THEN EqualResult(FALSE)
  ELSE IF DynamicType(other) # "Blob" THEN EqualPanic
  ELSE IF Len(a.s) # Len(other.s) THEN EqualResult(FALSE)
  ELSE EqualResult(BytesEqual(a.s, other.s))

\* a.Equal(other), dispatched on the dynamic type of a.
Equal(a, other) ==
  CASE a.kind = "Int" -> IntEqual(a, other)
    [] a.kind = "Float" -> FloatEqual(a, other)
    [] a.kind = "Bool" -> BoolEqual(a, other)
    [] a.kind = "String" -> StringEqual(a, other)
    [] a.kind = "Blob" -> BlobEqual(a, other)

(***************************************************************************)
(* The typed accessors: five methods on each of the five types.  A result  *)
(* is the value returned and the error; the value is kept in a record of   *)
(* one shape, the field of the accessor's type holding what was returned.  *)
(***************************************************************************)
Zero == [i |-> 0, f |-> 0, b |-> FALSE, s |-> <<>>]
Read(v, e) == [val |-> v, err |-> e]

ReadInt32(a) ==
  CASE a.kind = "Int" -> Read([Zero EXCEPT !.i = a.i], Nil)
    [] a.kind = "Float" -> Read(Zero, ErrInvalidTypeTag)
    [] a.kind = "Bool" -> Read(Zero, ErrInvalidTypeTag)
    [] a.kind = "String" -> Read(Zero, ErrInvalidTypeTag)
    [] a.kind = "Blob" -> Read(Zero, ErrInvalidTypeTag)

ReadFloat32(a) ==
  CASE a.kind = "Int" -> Read(Zero, ErrInvalidTypeTag)
    [] a.kind = "Float" -> Read([Zero EXCEPT !.f = a.f], Nil)
    [] a.kind = "Bool" -> Read(Zero, ErrInvalidTypeTag)
    [] a.kind = "String" -> Read(Zero, ErrInvalidTypeTag)
    [] a.kind = "Blob" -> Read(Zero, ErrInvalidTypeTag)

ReadBool(a) ==
  CASE a.kind = "Int" -> Read(Zero, ErrInvalidTypeTag)
    [] a.kind = "Float" -> Read(Zero, ErrInvalidTypeTag)
    [] a.kind = "Bool" -> Read([Zero EXCEPT !.b = a.b], Nil)
    [] a.kind = "String" -> Read(Zero, ErrInvalidTypeTag)
    [] a.kind = "Blob" -> Read(Zero, ErrInvalidTypeTag)

ArgReadString(a) ==
  CASE a.kind = "Int" -> Read(Zero, ErrInvalidTypeTag)
    [] a.kind = "Float" -> Read(Zero, ErrInvalidTypeTag)
    [] a.kind = "Bool" -> Read(Zero, ErrInvalidTypeTag)
    [] a.kind = "String" -> Read([Zero EXCEPT !.s = a.s], Nil)
    [] a.kind = "Blob" -> Read(Zero, ErrInvalidTypeTag)

\* A slip: String.ReadBlob hands out the string's bytes.
ArgReadBlobOfStringToo(a) ==
  CASE a.kind = "Int" -> Read(Zero, ErrInvalidTypeTag)
    [] a.kind = "Float" -> Read(Zero, ErrInvalidTypeTag)
    [] a.kind = "Bool" -> Read(Zero, ErrInvalidTypeTag)
    [] a.kind = "String" -> Read([Zero EXCEPT !.s = a.s], Nil)
    [] a.kind = "Blob" -> Read([Zero EXCEPT !.s = a.s], Nil)

ArgReadBlob(a) ==
  CASE a.kind = "Int" -> Read(Zero, ErrInvalidTypeTag)
    [] a.kind = "Float" -> Read(Zero, ErrInvalidTypeTag)
    [] a.kind = "Bool" -> Read(Zero, ErrInvalidTypeTag)
    [] a.kind = "String" -> Read(Zero, ErrInvalidTypeTag)
    [] a.kind = "Blob" -> Read([Zero EXCEPT !.s = a.s], Nil)

Accessors == {"ReadInt32", "ReadFloat32", "ReadBool", "ReadString", "ReadBlob"}

(***************************************************************************)
(* Binary primitives.                                                      *)
(***************************************************************************)
RoundUp4(n) == ((n + 3) \div 4) * 4

Zeros(n) == [k \in 1..n |-> NUL]

\* Pad appends zero bytes until the length is a multiple of 4.
Pad(b) == b \o Zeros(RoundUp4(Len(b)) - Len(b))

\* OscString: the text, a NUL terminator, padded to a multiple of 4.
OscString(s) == Pad(s \o <<NUL>>)

\* data[n:], where the caller has checked n <= len(data).
Drop(data, n) == SubSeq(data, n + 1, Len(data))

\* The index of the first NUL byte of data, 0 when there is none.
IndexNul(data) ==
  IF \E k \in 1..Len(data) : data[k] = NUL
  THEN CHOOSE k \in 1..Len(data) :
         data[k] = NUL /\ \A j \in 1..(k - 1) : data[j] # NUL
  ELSE 0

\* ReadString(data): the text before the first NUL and the padded length
\* of the field.  With no NUL in the buffer the scan runs out of bounds.
ReadString(data) ==
  LET k == IndexNul(data) IN
  IF k = 0 THEN [panic |-> TRUE, s |-> <<>>, idx |-> 0]
  ELSE [panic |-> FALSE, s |-> SubSeq(data, 1, k - 1), idx |-> RoundUp4(k)]

\* ReadBlob(length, data): exactly length bytes of data, and the length
\* rounded up to a multiple of 4.
ReadBlob(length, data) ==
  IF length < 0 \/ length > Len(data)
  THEN [panic |-> TRUE, b |-> <<>>, idx |-> 0]
  ELSE [panic |-> FALSE, b |-> SubSeq(data, 1, length), idx |-> RoundUp4(length)]

\* The four bytes, big-endian, of an int32 in two's complement.
BigEndian32(v) ==
  << (v \div Pow2(24)) % 256, (v \div Pow2(16)) % 256, (v \div Pow2(8)) % 256, v % 256 >>

\* The int32 whose big-endian two's complement the first four bytes are.
Int32Of(data) ==
  (IF data[1] >= 128 THEN data[1] - 256 ELSE data[1]) * Pow2(24)
    + data[2] * Pow2(16) + data[3] * Pow2(8) + data[4]

\* binary.Read(bytes.NewReader(data), byteOrder, &val) for a 4-byte val:
\* the bits read, or an error that leaves val at its zero value.
BinaryRead32(data) ==
  IF Len(data) >= 4 THEN [err |-> Nil, bits |-> Int32Of(data)]
  ELSE [err |-> ErrUnexpectedEOF, bits |-> 0]

(***************************************************************************)
(* The message codec.                                                      *)
(***************************************************************************)
NilArg == [kind |-> "nil", i |-> 0, f |-> 0, b |-> FALSE, s |-> <<>>]

Parsed(a, n, e) == [panic |-> FALSE, arg |-> a, n |-> n, err |-> e]
ParsePanic == [panic |-> TRUE, arg |-> NilArg, n |-> 0, err |-> Nil]

\* ParseArgument(tt, data).  The error of binary.Read is dropped for an Int
\* and a Float, and 4 bytes are reported consumed whatever data holds.
ParseArgument(tt, data) ==
  CASE tt = TypetagInt ->
         Parsed(IntArg(BinaryRead32(data).bits), 4, Nil)
    [] tt = TypetagFloat ->
         Parsed(FloatArg(BinaryRead32(data).bits), 4, Nil)
    [] tt = TypetagTrue -> Parsed(BoolArg(TRUE), 0, Nil)
    [] tt = TypetagFalse -> Parsed(BoolArg(FALSE), 0, Nil)
    [] tt = TypetagString ->
         LET r == ReadString(data) IN
         IF r.panic THEN ParsePanic ELSE Parsed(StringArg(r.s), r.idx, Nil)
    [] tt = TypetagBlob ->
         LET l == BinaryRead32(data) IN
         IF l.err # Nil THEN Parsed(NilArg, 0, l.err)
         ELSE LET r == ReadBlob(l.bits, Drop(data, 4)) IN
              IF r.panic THEN ParsePanic
              ELSE Parsed(BlobArg(r.b), r.idx + 4, Nil)
    [] OTHER -> Parsed(NilArg, 0, ErrInvalidTypeTag)

\* ReadArguments(typetags, data): one ParseArgument per tag byte on the
\* remaining buffer, the cursor advanced by the bytes consumed.  used is the
\* number of bytes of data before the cursor; offs records, for each
\* argument decoded, the cursor it was decoded at.
RECURSIVE ReadArgumentsFrom(_, _, _, _, _)
ReadArgumentsFrom(typetags, data, used, args, offs) ==
  IF typetags = <<>>
  THEN [panic |-> FALSE, err |-> Nil, args |-> args, offs |-> offs]
  ELSE LET r == ParseArgument(Head(typetags), data) IN
       IF r.panic
       THEN [panic |-> TRUE, err |-> Nil, args |-> <<>>, offs |-> offs]
       ELSE IF r.err # Nil
       THEN [panic |-> FALSE, err |-> r.err, args |-> <<>>, offs |-> offs]
       ELSE IF r.n > Len(data)
       THEN [panic |-> TRUE, err |-> Nil, args |-> <<>>,
             offs |-> Append(offs, used)]
       ELSE ReadArgumentsFrom(Tail(typetags), Drop(data, r.n), used + r.n,
                              Append(args, r.arg), Append(offs, used))

ReadArguments(typetags, data) ==
  ReadArgumentsFrom(typetags, data, 0, <<>>, <<>>)

\* msg.Typetags(): one tag byte per argument, padded.
Typetags(m) == Pad([k \in 1..Len(m.Arguments) |-> Typetag(m.Arguments[k])])

\* msg.Bytes(): the address field and the type-tag field; the loop that
\* would write the arguments is commented out.
Bytes(m) == [data |-> OscString(m.Address) \o Typetags(m), err |-> Nil]

NoMessage == [Address |-> <<>>, Arguments |-> <<>>]

ParseMessagePanic(base) ==
  [panic |-> TRUE, err |-> Nil, msg |-> NoMessage, argBase |-> base, offs |-> <<>>]

\* ParseMessage(data, sender).  argBase is the offset in the input of the
\* buffer handed to ReadArguments (-1 when the call does not get there),
\* offs the offsets in that buffer at which the arguments were decoded.
ParseMessage(data) ==
  LET r1 == ReadString(data) IN
  IF r1.panic \/ r1.idx > Len(data) THEN ParseMessagePanic(-1)
  ELSE
  LET d1 == Drop(data, r1.idx)
      r2 == ReadString(d1)
  IN
  IF r2.panic \/ r2.idx > Len(d1) THEN ParseMessagePanic(-1)
  ELSE
  LET d2 == Drop(d1, r2.idx) IN
  IF r2.idx > Len(d2) THEN ParseMessagePanic(-1)
  ELSE
  LET base == r1.idx + r2.idx + r2.idx
      ra == ReadArguments(r2.s, Drop(d2, r2.idx))
  IN
  IF ra.panic
  THEN [ParseMessagePanic(base) EXCEPT !.offs = ra.offs]
  ELSE IF ra.err # Nil
  THEN [panic |-> FALSE, err |-> ra.err, msg |-> NoMessage,
        argBase |-> base, offs |-> ra.offs]
  ELSE [panic |-> FALSE, err |-> Nil,
        msg |-> [Address |-> r1.s, Arguments |-> ra.args],
        argBase |-> base, offs |-> ra.offs]

(***************************************************************************)
(* Regular expressions: regexp.Compile and Regexp.MatchString, for the     *)
(* syntax GetRegex produces from the bytes of the model's addresses:       *)
(* literals, backslash escapes, '.', a postfix '*', groups, '|', '^', '$'. *)
(***************************************************************************)
Tok(t, c) == [t |-> t, c |-> c]

IsAlnum(c) == c \in (48..57) \cup (65..90) \cup (97..122)

\* The tokens of a regular expression.  A backslash makes the punctuation
\* after it a literal; before a letter of the model's addresses, or at the
\* end, it is an error.
RECURSIVE Tokenize(_)
Tokenize(r) ==
  IF r = <<>> THEN <<>>
  ELSE LET c == Head(r) IN
       IF c = ChBackslash
       THEN IF Len(r) = 1 \/ IsAlnum(r[2]) THEN <<Tok("err", c)>>
            ELSE <<Tok("lit", r[2])>> \o Tokenize(Drop(r, 2))
       ELSE << CASE c = ChLParen -> Tok("open", c)
                 [] c = ChRParen -> Tok("close", c)
                 [] c = ChBar -> Tok("alt", c)
                 [] c = ChStar -> Tok("star", c)
                 [] c = ChDot -> Tok("any", c)
                 [] c = ChCaret -> Tok("bol", c)
                 [] c = ChDollar -> Tok("eol", c)
                 [] OTHER -> Tok("lit", c) >> \o Tokenize(Tail(r))

\* The nesting depth after each token; -1 from an unopened ')' onwards.
RECURSIVE DepthAfter(_, _)
DepthAfter(toks, k) ==
  IF k = 0 THEN 0
  ELSE LET d == DepthAfter(toks, k - 1) IN
       IF d < 0 THEN -1
       ELSE IF toks[k].t = "open" THEN d + 1
       ELSE IF toks[k].t = "close" THEN d - 1
       ELSE d

\* What the parser rejects: a bad escape, a '*' with nothing to repeat or
\* after another '*', a ')' with no '(' and a '(' with no ')'.
SyntaxOK(toks) ==
  /\ \A k \in 1..Len(toks) : toks[k].t # "err"
  /\ \A k \in 1..Len(toks) :
       toks[k].t = "star" =>
         k > 1 /\ toks[k - 1].t \notin {"open", "alt", "star"}
  /\ \A k \in 1..Len(toks) : DepthAfter(toks, k) >= 0
  /\ DepthAfter(toks, Len(toks)) = 0

\* regexp.Compile(expr)
Compile(expr) ==
  LET toks == Tokenize(expr) IN
  IF SyntaxOK(toks) THEN [err |-> Nil, toks |-> toks]
  ELSE [err |-> ErrRegexSyntax, toks |-> <<>>]

\* The index of the ')' that closes the '(' at index 1 of toks.
CloseOf(toks) ==
  CHOOSE k \in 2..Len(toks) :
    /\ toks[k].t = "close"
    /\ DepthAfter(toks, k) = 0
    /\ \A j \in 1..(k - 1) : DepthAfter(toks, j) > 0

\* The index of the first '|' outside every group, 0 when there is none.
TopAlt(toks) ==
  LET S == {k \in 1..Len(toks) :
              toks[k].t = "alt" /\ DepthAfter(toks, k) = 0}
  IN IF S = {} THEN 0 ELSE CHOOSE k \in S : \A j \in S : k <= j

\* The positions of s at which a match of toks can end, having started at
\* a position of P.
RECURSIVE EndsAlt(_, _, _), EndsCat(_, _, _), EndsAtom(_, _, _), EndsStar(_, _, _)
EndsAlt(toks, s, P) ==
  LET k == TopAlt(toks) IN
  IF k = 0 THEN EndsCat(toks, s, P)
  ELSE EndsCat(SubSeq(toks, 1, k - 1), s, P)
         \cup EndsAlt(SubSeq(toks, k + 1, Len(toks)), s, P)

EndsCat(toks, s, P) ==
  IF toks = <<>> \/ P = {} THEN P
  ELSE LET n == IF toks[1].t = "open" THEN CloseOf(toks) ELSE 1
           atom == SubSeq(toks, 1, n)
       IN IF n < Len(toks) /\ toks[n + 1].t = "star"
          THEN EndsCat(SubSeq(toks, n + 2, Len(toks)), s, EndsStar(atom, s, P))
          ELSE EndsCat(SubSeq(toks, n + 1, Len(toks)), s, EndsAtom(atom, s, P))

EndsAtom(atom, s, P) ==
  CASE atom[1].t = "open" -> EndsAlt(SubSeq(atom, 2, Len(atom) - 1), s, P)
    [] atom[1].t = "lit" ->
         {p + 1 : p \in {q \in P : q < Len(s) /\ s[q + 1] = atom[1].c}}
    [] atom[1].t = "any" ->
         {p + 1 : p \in {q \in P : q < Len(s) /\ s[q + 1] # 10}}
    [] atom[1].t = "bol" -> {p \in P : p = 0}
    [] atom[1].t = "eol" -> {p \in P : p = Len(s)}

EndsStar(atom, s, P) ==
  LET N == P \cup EndsAtom(atom, s, P) IN
  IF N = P THEN P ELSE EndsStar(atom, s, N)

\* exp.MatchString(s): some substring of s matches.
MatchString(exp, s) == EndsAlt(exp.toks, s, 0..Len(s)) # {}

(***************************************************************************)
(* The address matcher.                                                    *)
(***************************************************************************)
\* strings.Replace(s, old, new, -1) for a one-byte old.
RECURSIVE Replace(_, _, _)
Replace(s, old, new) ==
  IF s = <<>> THEN <<>>
  ELSE (IF Head(s) = old THEN new ELSE <<Head(s)>>) \o Replace(Tail(s), old, new)

\* strings.Split(s, sep) for a one-byte sep: never an empty list.
RECURSIVE Split(_, _)
Split(s, sep) ==
  IF \A k \in 1..Len(s) : s[k] # sep THEN <<s>>
  ELSE LET k == CHOOSE j \in 1..Len(s) :
                  s[j] = sep /\ \A h \in 1..(j - 1) : s[h] # sep
       IN <<SubSeq(s, 1, k - 1)>> \o Split(Drop(s, k), sep)

\* The pattern as GetRegex rewrites it, before the anchors are added.
Translate(pattern) ==
  LET p1 == Replace(pattern, ChDot, <<ChBackslash, ChDot>>)
      p2 == Replace(p1, ChLParen, <<ChBackslash, ChLParen>>)
      p3 == Replace(p2, ChRParen, <<ChBackslash, ChRParen>>)
      p4 == Replace(p3, ChStar, <<ChDot, ChStar>>)
      p5 == Replace(p4, ChLBrace, <<ChLParen>>)
      p6 == Replace(p5, ChComma, <<ChBar>>)
      p7 == Replace(p6, ChRBrace, <<ChRParen>>)
  IN Replace(p7, ChQuestion, <<ChDot>>)

\* GetRegex(pattern)
GetRegex(pattern) == Compile(<<ChCaret>> \o Translate(pattern) \o <<ChDollar>>)

\* VerifyParts(m1, m2)
VerifyParts(m1, m2) ==
  IF m1 = m2 THEN TRUE
  ELSE LET p1 == Split(m1, MessageChar)
           p2 == Split(m2, MessageChar)
       IN IF Len(p1) # Len(p2) \/ Len(p1) = 0 THEN FALSE
          ELSE \A k \in 2..Len(p1) : Len(p1[k]) # 0 /\ Len(p2[k]) # 0

\* msg.Match(address)
Match(m, address) ==
  IF ~VerifyParts(address, m.Address)
  THEN [match |-> FALSE, err |-> Nil]
  ELSE LET exp == GetRegex(m.Address) IN
       IF exp.err # Nil
       THEN [match |-> FALSE, err |-> exp.err]
       ELSE [match |-> MatchString(exp, address), err |-> Nil]

(***************************************************************************)
(* The wire format of section 3 and 4.3 of the specification: what a       *)
(* sender that follows it puts on the wire.  It supplies the buffers the   *)
(* decoder is run on.                                                      *)
(***************************************************************************)
EncodeArgument(a) ==
  CASE a.kind = "Int" -> BigEndian32(a.i)
    [] a.kind = "Float" -> BigEndian32(a.f)
    [] a.kind = "Bool" -> <<>>
    [] a.kind = "String" -> OscString(a.s)
    [] a.kind = "Blob" -> BigEndian32(Len(a.s)) \o Pad(a.s)

RECURSIVE EncodeArguments(_)
EncodeArguments(args) ==
  IF args = <<>> THEN <<>>
  ELSE EncodeArgument(Head(args)) \o EncodeArguments(Tail(args))

TagString(args) == [k \in 1..Len(args) |-> Typetag(args[k])]

Serialize(m) ==
  OscString(m.Address) \o OscString(TagString(m.Arguments))
    \o EncodeArguments(m.Arguments)

Prefixes(data) == {SubSeq(data, 1, n) : n \in 0..Len(data)}

(***************************************************************************)
(* The values the operations are run on.                                   *)
(***************************************************************************)
\* The strings over an alphabet of at most n bytes.
RECURSIVE StringsOf(_, _)
StringsOf(A, n) ==
  IF n = 0 THEN {<<>>}
  ELSE LET S == StringsOf(A, n - 1) IN
       S \cup {Append(s, c) : s \in {x \in S : Len(x) = n - 1}, c \in A}

\* The lists over a set of at most n elements.
Lists(S, n) == UNION {[1..k -> S] : k \in 0..n}

ArgValues ==
  {IntArg(v) : v \in {0, 1, -1, 2147483647, MinInt32}}
    \cup {FloatArg(v) : v \in {0, MinInt32, 1065353216, 2143289344}}
    \cup {BoolArg(v) : v \in BOOLEAN}
    \cup {StringArg(v) : v \in {<<>>, <<ChY>>, <<ChY, ChG>>}}
    \cup {BlobArg(v) : v \in {<<>>, <<ChY>>, <<ChY, ChG>>, <<1, 2, 3>>}}

CodecArgs ==
  { IntArg(1), IntArg(-2), FloatArg(1065353216), BoolArg(TRUE), BoolArg(FALSE),
    StringArg(<<ChY>>), StringArg(<<ChY, ChG, ChY, ChG>>), BlobArg(<<1, 2, 3>>) }

CodecAddresses == { <<MessageChar, ChY>>, <<MessageChar, ChY, MessageChar, ChG>> }

Messages ==
  {[Address |-> a, Arguments |-> l] :
     a \in CodecAddresses, l \in Lists(CodecArgs, MaxArgs)}

TagBytes ==
  {TypetagInt, TypetagFloat, TypetagTrue, TypetagFalse, TypetagString,
   TypetagBlob, ChY}

PatternBytes ==
  {MessageChar, ChY, ChLBrace, ChRBrace, ChComma, ChStar, ChQuestion, ChDot,
   ChLParen, ChRParen, ChBackslash}

\* /y/{y,g}   /y//y   /y/*   /y/g?   /y/g/y
SamplePatterns ==
  { <<MessageChar, ChY, MessageChar, ChLBrace, ChY, ChComma, ChG, ChRBrace>>,
    <<MessageChar, ChY, MessageChar, MessageChar, ChY>>,
    <<MessageChar, ChY, MessageChar, ChStar>>,
    <<MessageChar, ChY, MessageChar, ChG, ChQuestion>>,
    <<MessageChar, ChY, MessageChar, ChG, MessageChar, ChY>> }

Patterns == StringsOf(PatternBytes, MaxPatLen) \cup SamplePatterns

AddressBytes == {MessageChar, ChY, ChLParen}

\* /y/g   /y/y   /y/gy   /y//y
SampleAddresses ==
  { <<MessageChar, ChY, MessageChar, ChG>>,
    <<MessageChar, ChY, MessageChar, ChY>>,
    <<MessageChar, ChY, MessageChar, ChG, ChY>>,
    <<MessageChar, ChY, MessageChar, MessageChar, ChY>> }

Addresses == StringsOf(AddressBytes, MaxAddrLen) \cup SampleAddresses

(***************************************************************************)
(* The state machine.  msg is the Message the application holds, argA and  *)
(* argB two Arguments it holds; op is the operation called last, inp its   *)
(* input and ret its result; probe holds, per typed accessor, the result   *)
(* of the last call of it on argA.                                         *)
(***************************************************************************)
None == <<>>
NotCalled == [val |-> Zero, err |-> "not called"]

\* The codec: a Message built by the application.
Init ==
  /\ msg \in Messages
  /\ op = "new"
  /\ inp = None
  /\ ret = None
  /\ argA = NilArg
  /\ argB = NilArg
  /\ probe = [n \in Accessors |-> NotCalled]

TypetagsCall ==
  /\ op = "new"
  /\ op' = "Typetags"
  /\ ret' = Typetags(msg)
  /\ UNCHANGED <<msg, inp, argA, argB, probe>>

BytesCall ==
  /\ op = "new"
  /\ op' = "Bytes"
  /\ ret' = Bytes(msg)
  /\ UNCHANGED <<msg, inp, argA, argB, probe>>

\* The receiver is handed what Bytes wrote, or a well-formed message, whole
\* or cut short.
ParseMessageCall ==
  /\ op = "new"
  /\ \E data \in {Bytes(msg).data} \cup Prefixes(Serialize(msg)) :
       /\ op' = "ParseMessage"
       /\ inp' = data
       /\ ret' = ParseMessage(data)
  /\ UNCHANGED <<msg, argA, argB, probe>>

\* One argument's payload, whole or cut short, under any tag.
ParseArgumentCall ==
  /\ op = "new"
  /\ msg.Arguments # <<>>
  /\ \E tt \in TagBytes, data \in Prefixes(EncodeArgument(msg.Arguments[1])) :
       /\ op' = "ParseArgument"
       /\ inp' = [tt |-> tt, data |-> data]
       /\ ret' = ParseArgument(tt, data)
  /\ UNCHANGED <<msg, argA, argB, probe>>

Next == TypetagsCall \/ BytesCall \/ ParseMessageCall \/ ParseArgumentCall

Spec == Init /\ [][Next]_vars

\* The matcher: a Message whose address is a pattern.
InitMatch ==
  /\ msg \in {[Address |-> p, Arguments |-> <<>>] : p \in Patterns}
  /\ op = "new"
  /\ inp = None
  /\ ret = None
  /\ argA = NilArg
  /\ argB = NilArg
  /\ probe = [n \in Accessors |-> NotCalled]

MatchCall ==
  /\ op = "new"
  /\ \E address \in Addresses \cup {msg.Address} :
       /\ op' = "Match"
       /\ inp' = address
       /\ ret' = Match(msg, address)
  /\ UNCHANGED <<msg, argA, argB, probe>>

NextMatch == MatchCall

SpecMatch == InitMatch /\ [][NextMatch]_vars

\* The arguments: two Arguments of any variants.
InitArg ==
  /\ msg = NoMessage
  /\ op = "new"
  /\ inp = None
  /\ ret = None
  /\ argA \in ArgValues
  /\ argB \in ArgValues
  /\ probe = [n \in Accessors |-> NotCalled]

EqualCall ==
  /\ op' = "Equal"
  /\ ret' = Equal(argA, argB)
  /\ UNCHANGED <<msg, inp, argA, argB, probe>>

ReadInt32Call ==
  /\ probe' = [probe EXCEPT !["ReadInt32"] = ReadInt32(argA)]
  /\ UNCHANGED <<msg, op, inp, ret, argA, argB>>

ReadFloat32Call ==
  /\ probe' = [probe EXCEPT !["ReadFloat32"] = ReadFloat32(argA)]
  /\ UNCHANGED <<msg, op, inp, ret, argA, argB>>

ReadBoolCall ==
  /\ probe' = [probe EXCEPT !["ReadBool"] = ReadBool(argA)]
  /\ UNCHANGED <<msg, op, inp, ret, argA, argB>>

ReadStringCall ==
  /\ probe' = [probe EXCEPT !["ReadString"] = ArgReadString(argA)]
  /\ UNCHANGED <<msg, op, inp, ret, argA, argB>>

ReadBlobCall ==
  /\ probe' = [probe EXCEPT !["ReadBlob"] = ArgReadBlob(argA)]
  /\ UNCHANGED <<msg, op, inp, ret, argA, argB>>

NextArg ==
  \/ EqualCall
  \/ ReadInt32Call
  \/ ReadFloat32Call
  \/ ReadBoolCall
  \/ ReadStringCall
  \/ ReadBlobCall

SpecArg == InitArg /\ [][NextArg]_vars

(***************************************************************************)
(* The properties.                                                         *)
(***************************************************************************)

\* C1: round trip.  When ParseMessage is run on what Bytes wrote for a
\* Message with a non-empty address, it succeeds and returns the same
\* address and arguments that are Equal, index by index.
C1_RoundTrip ==
  (op = "ParseMessage" /\ inp = Bytes(msg).data /\ msg.Address # <<>>) =>
    /\ ~ret.panic
    /\ ret.err = Nil
    /\ ret.msg.Address = msg.Address
    /\ Len(ret.msg.Arguments) = Len(msg.Arguments)
    /\ \A k \in 1..Len(msg.Arguments) :
         Equal(ret.msg.Arguments[k], msg.Arguments[k]) = EqualResult(TRUE)

\* Whether an argument has a payload on the wire (every variant but Bool).
HasPayload(a) == a.kind \in {"Int", "Float", "String", "Blob"}

\* C2: the output of Bytes is the address field, then the type-tag field,
\* then the payload of every argument in order; with an Int, Float, String
\* or Blob argument it is longer than the two fields together.
C2_BytesLayout ==
  op = "Bytes" =>
    /\ ret.err = Nil
    /\ ret.data = OscString(msg.Address) \o Typetags(msg)
                    \o EncodeArguments(msg.Arguments)
    /\ (\E k \in 1..Len(msg.Arguments) : HasPayload(msg.Arguments[k])) =>
         Len(ret.data) > Len(OscString(msg.Address)) + Len(Typetags(msg))

\* C3: the type-tag field holds one tag per argument in order, then at
\* least one NUL, and its length is a multiple of 4.
C3_TypetagField ==
  op = "Typetags" =>
    LET n == Len(msg.Arguments) IN
    /\ Len(ret) >= n + 1
    /\ Len(ret) % 4 = 0
    /\ \A k \in 1..Len(ret) :
         ret[k] = (IF k <= n THEN Typetag(msg.Arguments[k]) ELSE NUL)

\* C4: Match of an address identical to the pattern, the pair passing the
\* part check, returns (true, nil), whatever bytes the string holds.
C4_IdenticalMatches ==
  (op = "Match" /\ inp = msg.Address /\ VerifyParts(inp, msg.Address)) =>
    (ret.match /\ ret.err = Nil)

\* A segment after the first that is empty.
HasEmptyPart(s) ==
  LET p == Split(s, MessageChar) IN \E k \in 2..Len(p) : p[k] = <<>>

\* C5: Match returns (false, nil) when address and pattern split into
\* different numbers of segments or either has an empty segment after the
\* first, identical strings included.
C5_MalformedPartsNoMatch ==
  ( /\ op = "Match"
    /\ \/ Len(Split(inp, MessageChar)) # Len(Split(msg.Address, MessageChar))
       \/ HasEmptyPart(inp)
       \/ HasEmptyPart(msg.Address) ) =>
    (~ret.match /\ ret.err = Nil)

\* The number of '{' less the number of '}' in the first k bytes.
RECURSIVE BraceDepth(_, _)
BraceDepth(p, k) ==
  IF k = 0 THEN 0
  ELSE BraceDepth(p, k - 1)
         + (IF p[k] = ChLBrace THEN 1 ELSE IF p[k] = ChRBrace THEN -1 ELSE 0)

\* An unopened '}' or an unclosed '{'.
Unbalanced(p) ==
  \/ \E k \in 1..Len(p) : BraceDepth(p, k) < 0
  \/ BraceDepth(p, Len(p)) # 0

\* C6: for a pattern with unbalanced braces and another address that
\* passes the part check, Match returns false and an error.
C6_UnbalancedIsError ==
  ( /\ op = "Match"
    /\ Unbalanced(msg.Address)
    /\ inp # msg.Address
    /\ VerifyParts(inp, msg.Address) ) =>
    (~ret.match /\ ret.err # Nil)

\* The buffer is shorter than the payload the tag declares.
Truncated(tt, data) ==
  \/ tt \in {TypetagInt, TypetagFloat, TypetagBlob} /\ Len(data) < 4
  \/ tt = TypetagBlob /\ Len(data) >= 4 /\ Int32Of(data) > Len(data) - 4

\* C7: ParseArgument on a truncated payload returns an error and no
\* Argument and does not fault; when it succeeds it has consumed no more
\* than the buffer holds.
C7_TruncatedIsError ==
  op = "ParseArgument" =>
    /\ Truncated(inp.tt, inp.data) =>
         (~ret.panic /\ ret.err # Nil /\ ret.arg = NilArg)
    /\ (~ret.panic /\ ret.err = Nil) => ret.n <= Len(inp.data)

\* The accessor that matches a variant.
AccessorOf(a) ==
  CASE a.kind = "Int" -> "ReadInt32"
    [] a.kind = "Float" -> "ReadFloat32"
    [] a.kind = "Bool" -> "ReadBool"
    [] a.kind = "String" -> "ReadString"
    [] a.kind = "Blob" -> "ReadBlob"

\* The value an Argument stores.
StoredValue(a) == [i |-> a.i, f |-> a.f, b |-> a.b, s |-> a.s]

Called(n) == probe[n] # NotCalled

\* C8: of the five accessors called on an Argument, the one matching its
\* variant returns the stored value and no error, each other one returns
\* ErrInvalidTypeTag, and no call changes the Argument.
C8_ExactlyOneAccessor ==
  /\ [](\A n \in Accessors :
          Called(n) =>
            IF n = AccessorOf(argA)
            THEN probe[n] = Read(StoredValue(argA), Nil)
            ELSE probe[n].err = ErrInvalidTypeTag)
  /\ []((\A n \in Accessors : Called(n)) =>
          Cardinality({n \in Accessors : probe[n].err = Nil}) = 1)
  /\ [][argA' = argA]_vars

C8_Witness ==
  /\ \A n \in Accessors : Called(n)
  /\ argA = StringArg(<<ChY, ChG>>)
  /\ probe["ReadString"] = Read(StoredValue(argA), Nil)
  /\ probe["ReadBlob"].err = ErrInvalidTypeTag

\* Equality of the values of two Arguments of one variant.
SameValue(a, b) ==
  CASE a.kind = "Int" -> a.i = b.i
    [] a.kind = "Float" -> Float32Eq(a.f, b.f)
    [] a.kind = "Bool" -> a.b = b.b
    [] a.kind = "String" -> a.s = b.s
    [] a.kind = "Blob" -> a.s = b.s

\* C9: Equal never faults, is false across variants, within a variant is
\* true exactly when the values are equal, and is symmetric.
C9_EqualByVariantAndValue ==
  op = "Equal" =>
    /\ ~ret.panic
    /\ argA.kind # argB.kind => ~ret.eq
    /\ argA.kind = argB.kind => (ret.eq <=> SameValue(argA, argB))
    /\ Equal(argB, argA) = ret

C9_Witness ==
  /\ op = "Equal"
  /\ argA = BoolArg(FALSE)
  /\ argB = BoolArg(FALSE)
  /\ ret = EqualResult(TRUE)

\* C10: ParseMessage advances one cursor once per field: with A and T the
\* padded lengths of the address and type-tag fields, the first argument
\* is decoded at offset A+T of the input, and each later one where the one
\* before it ended.
C10_SingleCursor ==
  (op = "ParseMessage" /\ ret.offs # <<>>) =>
    LET A == ReadString(inp).idx
        T == ReadString(Drop(inp, A)).idx
    IN ret.argBase + ret.offs[1] = A + T

=============================================================================
